---- MODULE Spec2Model ----
(***************************************************************************)
(* Model of task1.py: a command-line contact manager.                      *)
(*                                                                         *)
(* Text is modelled as a sequence of symbols.  A symbol is a TLA+ string   *)
(* that stands either for one character of user input ("J", "1", ".")      *)
(* or for one literal piece of a message of the program.  Concatenating    *)
(* sequences of symbols is concatenating Python strings.                   *)
(* The symbol "sup2" stands for the character U+00B2 (superscript two),    *)
(* for which str.isdigit() is true although it is not a decimal digit.     *)
(***************************************************************************)
EXTENDS Integers, Sequences, FiniteSets, TLC

(***************************************************************************)
(* Bounds of the model.                                                    *)
(***************************************************************************)
\* the largest number of phones stored in the whole book
MaxPhones == 2

(***************************************************************************)
(* Characters and the str methods the program uses.                        *)
(***************************************************************************)
DecimalDigits == {"0", "1", "2", "3", "4", "5", "6", "7", "8", "9"}

\* characters with Numeric_Type=Digit that are not decimal digits
OtherDigits == {"sup2"}

DigitVal(c) ==
  CASE c = "0" -> 0 [] c = "1" -> 1 [] c = "2" -> 2 [] c = "3" -> 3
    [] c = "4" -> 4 [] c = "5" -> 5 [] c = "6" -> 6 [] c = "7" -> 7
    [] c = "8" -> 8 [] c = "9" -> 9

DigitChar(n) ==
  CASE n = 0 -> "0" [] n = 1 -> "1" [] n = 2 -> "2" [] n = 3 -> "3"
    [] n = 4 -> "4" [] n = 5 -> "5" [] n = 6 -> "6" [] n = 7 -> "7"
    [] n = 8 -> "8" [] n = 9 -> "9"

\* str.isdigit(): non-empty and every character is a digit character
IsDigitStr(s) == Len(s) > 0 /\ \A i \in 1..Len(s) : s[i] \in DecimalDigits \cup OtherDigits

\* str.lower() of one character, on the letters the inputs use
LowerChar(c) ==
  CASE c = "J" -> "j" [] c = "O" -> "o" [] c = "A" -> "a" [] c = "L" -> "l"
    [] c = "D" -> "d" [] OTHER -> c

\* str.lower()
Lower(s) == [i \in 1..Len(s) |-> LowerChar(s[i])]

\* str(n) for a natural number n
RECURSIVE IntToStr(_)
IntToStr(n) == IF n < 10 THEN <<DigitChar(n)>> ELSE IntToStr(n \div 10) \o <<DigitChar(n % 10)>>

\* int(s) for a string of decimal digits
RECURSIVE StrToInt(_)
StrToInt(s) ==
  IF Len(s) = 0 THEN 0
  ELSE 10 * StrToInt(SubSeq(s, 1, Len(s) - 1)) + DigitVal(s[Len(s)])

\* sep.join(parts)
RECURSIVE Join(_, _)
Join(sep, parts) ==
  IF Len(parts) = 0 THEN <<>>
  ELSE IF Len(parts) = 1 THEN parts[1]
  ELSE parts[1] \o sep \o Join(sep, Tail(parts))

\* s.split(".") : the pieces of s between the dots
RECURSIVE SplitDots(_)
SplitDots(s) ==
  IF \A i \in 1..Len(s) : s[i] # "."
  THEN <<s>>
  ELSE LET k == CHOOSE i \in 1..Len(s) : s[i] = "." /\ \A j \in 1..(i - 1) : s[j] # "."
       IN  <<SubSeq(s, 1, k - 1)>> \o SplitDots(SubSeq(s, k + 1, Len(s)))

(***************************************************************************)
(* Calendar dates (datetime.date).  A date is <<year, month, day>>.        *)
(***************************************************************************)
IsLeap(y) == (y % 4 = 0) /\ ((y % 100 # 0) \/ (y % 400 = 0))

DaysInMonth(y, m) ==
  IF m = 2 THEN (IF IsLeap(y) THEN 29 ELSE 28)
  ELSE IF m \in {4, 6, 9, 11} THEN 30 ELSE 31

\* the dates datetime.date can hold
IsDate(y, m, d) == y \in 1..9999 /\ m \in 1..12 /\ d \in 1..DaysInMonth(y, m)

RECURSIVE DaysBeforeMonth(_, _)
DaysBeforeMonth(y, m) == IF m = 1 THEN 0 ELSE DaysBeforeMonth(y, m - 1) + DaysInMonth(y, m - 1)

\* date.toordinal(): the day number, 0001-01-01 being day 1
Ordinal(dt) ==
  LET y == dt[1] - 1
  IN  y * 365 + (y \div 4) - (y \div 100) + (y \div 400) + DaysBeforeMonth(dt[1], dt[2]) + dt[3]

\* a two-digit field of strftime: %d, %m
Pad2(n) == IF n < 10 THEN <<"0">> \o IntToStr(n) ELSE IntToStr(n)

\* date.strftime("%d.%m.%Y"); %Y is the year as the C library prints it, without padding
FormatDate(dt) == Pad2(dt[3]) \o <<".">> \o Pad2(dt[2]) \o <<".">> \o IntToStr(dt[1])

(***************************************************************************)
(* Outcomes of a call: a returned value or a raised exception.             *)
(***************************************************************************)
Return(v) == [kind |-> "return", value |-> v]

Raise(exc, msg) == [kind |-> exc, value |-> msg]

\* the object a Python name holds when it holds nothing
None == <<>>

(***************************************************************************)
(* Field validators.                                                       *)
(***************************************************************************)
\* the message of Phone's ValueError (the source's text is Ukrainian; the symbol is its translation)
PhoneError == <<"The phone number must consist of 10 digits.">>

\* Phone.__init__
Phone(value) ==
  IF ~(IsDigitStr(value) /\ Len(value) = 10)
  THEN Raise("ValueError", PhoneError)
  ELSE Return(value)

\* the %d directive of strptime: 3[0-1]|[1-2]\d|0[1-9]|[1-9]
MatchesDay(s) ==
  \/ Len(s) = 2 /\ s[1] = "3" /\ s[2] \in {"0", "1"}
  \/ Len(s) = 2 /\ s[1] \in {"1", "2"} /\ s[2] \in DecimalDigits
  \/ Len(s) = 2 /\ s[1] = "0" /\ s[2] \in DecimalDigits \ {"0"}
  \/ Len(s) = 1 /\ s[1] \in DecimalDigits \ {"0"}

\* the %m directive of strptime: 1[0-2]|0[1-9]|[1-9]
MatchesMonth(s) ==
  \/ Len(s) = 2 /\ s[1] = "1" /\ s[2] \in {"0", "1", "2"}
  \/ Len(s) = 2 /\ s[1] = "0" /\ s[2] \in DecimalDigits \ {"0"}
  \/ Len(s) = 1 /\ s[1] \in DecimalDigits \ {"0"}

\* the %Y directive of strptime: \d\d\d\d
MatchesYear(s) == Len(s) = 4 /\ \A i \in 1..4 : s[i] \in DecimalDigits

DateFormatError == <<"Invalid date format. Use DD.MM.YYYY">>

\* datetime.strptime(value, "%d.%m.%Y").date(): the date, or None when strptime raises ValueError
Strptime(value) ==
  LET parts == SplitDots(value)
  IN  IF Len(parts) # 3 THEN None
      ELSE IF ~(MatchesDay(parts[1]) /\ MatchesMonth(parts[2]) /\ MatchesYear(parts[3])) THEN None
      ELSE LET d == StrToInt(parts[1])
               m == StrToInt(parts[2])
               y == StrToInt(parts[3])
           IN  IF IsDate(y, m, d) THEN <<y, m, d>> ELSE None

\* Birthday.__init__
Birthday(value) ==
  LET birthday_date == Strptime(value)
  IN  IF birthday_date = None
      THEN Raise("ValueError", DateFormatError)
      ELSE Return(birthday_date)

(***************************************************************************)
(* Record: name, phones (a list of validated phone strings) and birthday   *)
(* (a date or None).  A method that mutates the record yields the record   *)
(* after the call and the outcome of the call.                             *)
(***************************************************************************)
\* Record.__init__
Record(name) == [name |-> name, phones |-> <<>>, birthday |-> None]

\* add_phone that skips a phone the record already holds
add_phone_dedup(record, phone_str) ==
  LET phone_obj == Phone(phone_str)
  IN  IF phone_obj.kind # "return"
      THEN [record |-> record, result |-> phone_obj]
      ELSE IF \E k \in 1..Len(record.phones) : record.phones[k] = phone_obj.value
      THEN [record |-> record, result |-> Return(None)]
      ELSE [record |-> [record EXCEPT !.phones = Append(@, phone_obj.value)],
            result |-> Return(None)]

\* Record.add_phone
add_phone(record, phone_str) ==
  LET phone_obj == Phone(phone_str)
  IN  IF phone_obj.kind # "return"
      THEN [record |-> record, result |-> phone_obj]
      ELSE [record |-> [record EXCEPT !.phones = Append(@, phone_obj.value)],
            result |-> Return(None)]

\* the confirmation of Record.add_birthday (the source's text is Ukrainian)
BirthdaySetMessage(name, dt) ==
  <<"Birthday for ">> \o name \o <<" set to ">> \o FormatDate(dt) \o <<".">>

\* add_birthday that keeps a birthday the record already has
Record_add_birthday_keep_first(record, birthday_str) ==
  LET b == Birthday(birthday_str)
  IN  IF b.kind # "return"
      THEN [record |-> record, result |-> b]
      ELSE [record |-> [record EXCEPT !.birthday = IF @ = None THEN b.value ELSE @],
            result |-> Return(BirthdaySetMessage(record.name, b.value))]

\* Record.add_birthday
Record_add_birthday(record, birthday_str) ==
  LET b == Birthday(birthday_str)
  IN  IF b.kind # "return"
      THEN [record |-> record, result |-> b]
      ELSE [record |-> [record EXCEPT !.birthday = b.value],
            result |-> Return(BirthdaySetMessage(record.name, b.value))]

\* date.replace(year=...): the date, or a ValueError when that year has no such day
ReplaceYear(dt, year) ==
  IF IsDate(year, dt[2], dt[3])
  THEN Return(<<year, dt[2], dt[3]>>)
  ELSE Raise("ValueError", <<"day is out of range for month">>)

\* Record.days_to_birthday, today being date.today()
days_to_birthday(record, today) ==
  IF record.birthday = None THEN Return(None)
  ELSE LET bday == record.birthday
           this_year == ReplaceYear(bday, today[1])
       IN  IF this_year.kind # "return" THEN this_year
           ELSE IF Ordinal(this_year.value) < Ordinal(today)
           THEN LET next_birthday == ReplaceYear(bday, today[1] + 1)
                IN  IF next_birthday.kind # "return" THEN next_birthday
                    ELSE Return(Ordinal(next_birthday.value) - Ordinal(today))
           ELSE Return(Ordinal(this_year.value) - Ordinal(today))

NoPhones == <<"No phones">>

NoData == <<"No data">>

\* Record.__str__ (the source's labels are Ukrainian)
RecordStr(record) ==
  LET phones_str == IF record.phones # <<>> THEN Join(<<", ">>, record.phones) ELSE NoPhones
      birthday_str == IF record.birthday # None THEN FormatDate(record.birthday) ELSE NoData
  IN  <<"Name: ">> \o record.name \o <<" | Phones: ">> \o phones_str
        \o <<" | Birthday: ">> \o birthday_str

(***************************************************************************)
(* AddressBook: a dict, modelled as the sequence of its items              *)
(* [key, record] in insertion order.                                       *)
(***************************************************************************)
\* AddressBook()
EmptyBook == <<>>

Keys(data) == {data[i].key : i \in 1..Len(data)}

\* the position of a key in the dict, 0 when absent
IndexOf(data, key) ==
  IF key \in Keys(data) THEN CHOOSE i \in 1..Len(data) : data[i].key = key ELSE 0

\* dict.__setitem__: an existing key keeps its position
SetItem(data, key, record) ==
  IF key \in Keys(data)
  THEN [data EXCEPT ![IndexOf(data, key)] = [key |-> key, record |-> record]]
  ELSE Append(data, [key |-> key, record |-> record])

\* add_record that files the record under its name as spelled
add_record_as_spelled(data, record) == SetItem(data, record.name, record)

\* AddressBook.add_record
add_record(data, record) == SetItem(data, Lower(record.name), record)

\* AddressBook.find: <<record>>, or None
find(data, name) ==
  IF Lower(name) \in Keys(data) THEN <<data[IndexOf(data, Lower(name))].record>> ELSE None

\* del self.data[key]
DelItem(data, key) ==
  LET k == IndexOf(data, key)
  IN  SubSeq(data, 1, k - 1) \o SubSeq(data, k + 1, Len(data))

\* delete that looks the name up as spelled
delete_as_spelled(data, name) ==
  IF name \in Keys(data)
  THEN [data |-> DelItem(data, name),
        result |-> Return(<<"Record ">> \o name \o <<" deleted.">>)]
  ELSE [data |-> data, result |-> Return(<<"Record not found.">>)]

\* AddressBook.delete (the source's messages are Ukrainian)
delete(data, name) ==
  IF Lower(name) \in Keys(data)
  THEN [data |-> DelItem(data, Lower(name)),
        result |-> Return(<<"Record ">> \o name \o <<" deleted.">>)]
  ELSE [data |-> data, result |-> Return(<<"Record not found.">>)]

\* the days from today to next_bday, the birthday moved to today's year, or to
\* the year after when that day is already past (get_upcoming_birthdays, lines 97-100)
UpcomingDelta(birthday, today) ==
  LET next_bday == ReplaceYear(birthday, today[1])
  IN  IF next_bday.kind # "return" THEN next_bday
      ELSE IF Ordinal(next_bday.value) < Ordinal(today)
      THEN LET rolled == ReplaceYear(birthday, today[1] + 1)
           IN  IF rolled.kind # "return" THEN rolled
               ELSE Return(Ordinal(rolled.value) - Ordinal(today))
      ELSE Return(Ordinal(next_bday.value) - Ordinal(today))

\* the loop of AddressBook.get_upcoming_birthdays over the items from position i on
RECURSIVE UpcomingFrom(_, _, _, _, _)
UpcomingFrom(data, i, days, today, result) ==
  IF i > Len(data) THEN Return(result)
  ELSE LET record == data[i].record
       IN  IF record.birthday = None
           THEN UpcomingFrom(data, i + 1, days, today, result)
           ELSE LET delta == UpcomingDelta(record.birthday, today)
                IN  IF delta.kind # "return" THEN delta
                    ELSE IF delta.value <= days
                    THEN UpcomingFrom(data, i + 1, days, today,
                                      Append(result, <<record.name, delta.value>>))
                    ELSE UpcomingFrom(data, i + 1, days, today, result)

\* AddressBook.get_upcoming_birthdays, today being date.today()
get_upcoming_birthdays(data, days, today) == UpcomingFrom(data, 1, days, today, <<>>)

(***************************************************************************)
(* Command handlers.  A handler yields the dict after the call and the     *)
(* outcome of the call.  X_func is the function the source defines under   *)
(* the name X, and X is that function as decorated by input_error.         *)
(***************************************************************************)
MissingArgument == <<"Enter the argument for the command">>

ContactNotFound == <<"Contact not found.">>

\* the wrapper with the messages of IndexError and KeyError exchanged
inner_swapped(result) ==
  CASE result.kind = "return"     -> result
    [] result.kind = "ValueError" -> Return(IF result.value # <<>> THEN result.value
                                            ELSE <<"Invalid data provided.">>)
    [] result.kind = "IndexError" -> Return(ContactNotFound)
    [] result.kind = "KeyError"   -> Return(MissingArgument)
    [] OTHER                      -> result

\* the wrapper of input_error applied to the outcome of the wrapped function
inner(result) ==
  CASE result.kind = "return"     -> result
    [] result.kind = "ValueError" -> Return(IF result.value # <<>> THEN result.value
                                            ELSE <<"Invalid data provided.">>)
    [] result.kind = "IndexError" -> Return(MissingArgument)
    [] result.kind = "KeyError"   -> Return(ContactNotFound)
    [] OTHER                      -> result

\* input_error
input_error(call) == [data |-> call.data, result |-> inner(call.result)]

\* the exception of `a, b, *_ = args` when args has fewer than n items
UnpackError(n, args) ==
  Raise("ValueError", <<"not enough values to unpack (expected at least ">> \o IntToStr(n)
                        \o <<", got ">> \o IntToStr(Len(args)) \o <<")">>)

\* add_contact that gives an existing record the spelling of the name in the command
add_contact_func_respelled(args, data) ==
  IF Len(args) < 2 THEN [data |-> data, result |-> UnpackError(2, args)]
  ELSE LET name == args[1]
           phone_str == args[2]
           found == find(data, name)
           record == Record(name)
           book1 == IF found = None THEN add_record(data, record) ELSE data
           message == IF found = None THEN <<"Contact added.">> ELSE <<"Contact updated.">>
           target == IF found = None THEN record ELSE [found[1] EXCEPT !.name = name]
       IN  IF phone_str # <<>>
           THEN LET added == add_phone(target, phone_str)
                IN  IF added.result.kind # "return"
                    THEN [data |-> book1, result |-> added.result]
                    ELSE [data |-> SetItem(book1, Lower(name), added.record),
                          result |-> Return(message)]
           ELSE [data |-> book1, result |-> Return(message)]

\* add_contact before decoration (the source's messages are Ukrainian)
add_contact_func(args, data) ==
  IF Len(args) < 2 THEN [data |-> data, result |-> UnpackError(2, args)]
  ELSE LET name == args[1]
           phone_str == args[2]
           found == find(data, name)
           record == IF found = None THEN Record(name) ELSE found[1]
           book1 == IF found = None THEN add_record(data, record) ELSE data
           message == IF found = None THEN <<"Contact added.">> ELSE <<"Contact updated.">>
       IN  IF phone_str # <<>>
           THEN LET added == add_phone(record, phone_str)
                IN  IF added.result.kind # "return"
                    THEN [data |-> book1, result |-> added.result]
                    ELSE [data |-> SetItem(book1, Lower(name), added.record),
                          result |-> Return(message)]
           ELSE [data |-> book1, result |-> Return(message)]

add_contact(args, data) == input_error(add_contact_func(args, data))

\* the attribute lookup record.edit_phone: class Record defines no edit_phone
Record_edit_phone ==
  Raise("AttributeError", <<"'Record' object has no attribute 'edit_phone'">>)

\* change_contact before decoration
change_contact_func(args, data) ==
  IF Len(args) < 3 THEN [data |-> data, result |-> UnpackError(3, args)]
  ELSE LET name == args[1]
           found == find(data, name)
       IN  IF found = None
           THEN [data |-> data, result |-> Raise("KeyError", <<>>)]
           ELSE [data |-> data, result |-> Record_edit_phone]

change_contact(args, data) == input_error(change_contact_func(args, data))

NoPhonesReply == <<"No phones.">>

\* phone before decoration
phone_func(args, data) ==
  IF Len(args) < 1 THEN [data |-> data, result |-> UnpackError(1, args)]
  ELSE LET name == args[1]
           found == find(data, name)
       IN  IF found = None
           THEN [data |-> data, result |-> Raise("KeyError", <<>>)]
           ELSE IF found[1].phones # <<>>
           THEN [data |-> data, result |-> Return(Join(<<"; ">>, found[1].phones))]
           ELSE [data |-> data, result |-> Return(NoPhonesReply)]

phone(args, data) == input_error(phone_func(args, data))

\* show_all before decoration
show_all_func(args, data) ==
  IF data = <<>>
  THEN [data |-> data, result |-> Return(<<"The address book is empty.">>)]
  ELSE [data |-> data,
        result |-> Return(Join(<<"\n">>, [i \in 1..Len(data) |-> RecordStr(data[i].record)]))]

show_all(args, data) == input_error(show_all_func(args, data))

\* add_birthday before decoration
add_birthday_func(args, data) ==
  IF Len(args) < 2 THEN [data |-> data, result |-> UnpackError(2, args)]
  ELSE LET name == args[1]
           birthday_str == args[2]
           found == find(data, name)
       IN  IF found = None
           THEN [data |-> data, result |-> Raise("KeyError", <<>>)]
           ELSE LET set == Record_add_birthday(found[1], birthday_str)
                IN  [data |-> SetItem(data, Lower(name), set.record), result |-> set.result]

add_birthday(args, data) == input_error(add_birthday_func(args, data))

\* show_birthday before decoration
show_birthday_func(args, data) ==
  IF Len(args) < 1 THEN [data |-> data, result |-> UnpackError(1, args)]
  ELSE LET name == args[1]
           found == find(data, name)
       IN  IF found = None
           THEN [data |-> data, result |-> Raise("KeyError", <<>>)]
           ELSE IF found[1].birthday # None
           THEN [data |-> data,
                 result |-> Return(found[1].name \o <<"'s birthday: ">>
                                     \o FormatDate(found[1].birthday))]
           ELSE [data |-> data, result |-> Return(<<"Birthday is not set.">>)]

show_birthday(args, data) == input_error(show_birthday_func(args, data))

NoUpcoming == <<"No contacts with a birthday within the next week.">>

\* one line of the birthdays listing
BirthdayLine(pair) == pair[1] \o <<" in ">> \o IntToStr(pair[2]) \o <<" days">>

\* birthdays before decoration, today being date.today()
birthdays_func(args, data, today) ==
  LET upcoming == get_upcoming_birthdays(data, 7, today)
  IN  IF upcoming.kind # "return" THEN [data |-> data, result |-> upcoming]
      ELSE IF upcoming.value = <<>> THEN [data |-> data, result |-> Return(NoUpcoming)]
      ELSE [data |-> data,
            result |-> Return(Join(<<"\n">>, [i \in 1..Len(upcoming.value) |->
                                               BirthdayLine(upcoming.value[i])]))]

birthdays(args, data, today) == input_error(birthdays_func(args, data, today))

(***************************************************************************)
(* Persistence: pickle.dump writes the object graph of the book, and       *)
(* pickle.load rebuilds the dict by setting its items in the order they    *)
(* were written.  A file is None when it does not exist, <<bytes>> else.   *)
(***************************************************************************)
\* the pickled form of a Record: its class and its attributes
PickleRecord(record) ==
  <<"Record", <<"name", record.name>>, <<"phones", record.phones>>, <<"birthday", record.birthday>>>>

\* pickle.dump(book, f): the class and the items of the dict in order
dumps(data) == <<"AddressBook">> \o [i \in 1..Len(data) |-> <<data[i].key, PickleRecord(data[i].record)>>]

\* unpickling that loses the birthday attribute
UnpickleRecord_no_birthday(p) == [name |-> p[2][2], phones |-> p[3][2], birthday |-> None]

UnpickleRecord(p) == [name |-> p[2][2], phones |-> p[3][2], birthday |-> p[4][2]]

\* the dict rebuilt from the first n pickled items
RECURSIVE LoadItems(_, _)
LoadItems(items, n) ==
  IF n = 0 THEN EmptyBook
  ELSE SetItem(LoadItems(items, n - 1), items[n][1], UnpickleRecord(items[n][2]))

\* pickle.load(f)
loads(bytes) == LoadItems(Tail(bytes), Len(bytes) - 1)

\* save_data: the file after the call
save_data(data) == <<dumps(data)>>

\* load_data: FileNotFoundError yields a new AddressBook
load_data(file) == IF file = None THEN EmptyBook ELSE loads(file[1])

(***************************************************************************)
(* parse_input.                                                            *)
(***************************************************************************)
\* str.strip().split(): the maximal runs of non-blank characters
RECURSIVE Split(_)
Split(s) ==
  IF Len(s) = 0 THEN <<>>
  ELSE IF s[1] = " " THEN Split(Tail(s))
  ELSE IF \A i \in 1..Len(s) : s[i] # " " THEN <<s>>
  ELSE LET k == CHOOSE i \in 1..Len(s) : s[i] = " " /\ \A j \in 1..(i - 1) : s[j] # " "
       IN  <<SubSeq(s, 1, k - 1)>> \o Split(SubSeq(s, k + 1, Len(s)))

\* parse_input that keeps the letter case of the command word
parse_input_case_kept(user_input) ==
  LET tokens == Split(user_input)
  IN  IF tokens = <<>> THEN [command |-> <<>>, args |-> <<>>]
      ELSE [command |-> tokens[1], args |-> Tail(tokens)]

\* parse_input
parse_input(user_input) ==
  LET tokens == Split(user_input)
  IN  IF tokens = <<>> THEN [command |-> <<>>, args |-> <<>>]
      ELSE [command |-> Lower(tokens[1]), args |-> Tail(tokens)]

(***************************************************************************)
(* The command words main compares with.                                   *)
(***************************************************************************)
CmdExit == <<"e", "x", "i", "t">>

CmdClose == <<"c", "l", "o", "s", "e">>

CmdHello == <<"h", "e", "l", "l", "o">>

CmdAdd == <<"a", "d", "d">>

CmdChange == <<"c", "h", "a", "n", "g", "e">>

CmdPhone == <<"p", "h", "o", "n", "e">>

CmdAll == <<"a", "l", "l">>

CmdAddBirthday == <<"a", "d", "d", "-", "b", "i", "r", "t", "h", "d", "a", "y">>

CmdShowBirthday == <<"s", "h", "o", "w", "-", "b", "i", "r", "t", "h", "d", "a", "y">>

CmdBirthdays == <<"b", "i", "r", "t", "h", "d", "a", "y", "s">>

(***************************************************************************)
(* The lines of input the model reads.                                     *)
(***************************************************************************)
Jo == <<"J", "o">>

JoLower == <<"j", "o">>

Al == <<"A", "l">>

P1 == <<"1", "2", "3", "4", "5", "6", "7", "8", "9", "0">>

P2 == <<"0", "9", "8", "7", "6", "5", "4", "3", "2", "1">>

PSup == <<"1", "2", "3", "4", "5", "6", "7", "8", "9", "sup2">>

PShort == <<"1", "2", "3", "4", "5">>

PAlpha == <<"1", "2", "3", "4", "5", "J", "7", "8", "9", "0">>

D1 == <<"1", "5", ".", "0", "6", ".", "1", "9", "9", "0">>

DBad == <<"3", "1", ".", "0", "2", ".", "1", "9", "9", "0">>

WordFoo == <<"f", "o", "o">>

WordAddUpper == <<"A", "D", "D">>

NameTokens == {Jo, JoLower, Al}

PhoneTokens == {P1, P2, PSup, PShort, PAlpha}

DateTokens == {D1, DBad}

\* the line a user types for a command word and its arguments
Line(word, args) == Join(<<" ">>, <<word>> \o args)

AddLines ==
  {Line(CmdAdd, <<>>), Line(CmdAdd, <<Jo>>)}
    \cup {Line(CmdAdd, <<Jo, p>>) : p \in {P1, P2, PShort, PAlpha}}
    \cup {Line(CmdAdd, <<JoLower, P2>>)}
    \cup {Line(CmdAdd, <<Al, p>>) : p \in {P1, PSup, PShort}}
    \cup {Line(CmdAdd, <<Al, P1, P2>>), Line(WordAddUpper, <<JoLower, P2>>),
          <<" ">> \o CmdAdd \o <<" ", " ">> \o Jo \o <<" ">> \o P1 \o <<" ">>}

ChangeLines ==
  {Line(CmdChange, <<>>), Line(CmdChange, <<Jo>>), Line(CmdChange, <<Jo, P1>>)}
    \cup {Line(CmdChange, <<n, P1, P2>>) : n \in NameTokens}
    \cup {Line(CmdChange, <<Jo, P1, PShort>>)}

PhoneLines == {Line(CmdPhone, <<>>)} \cup {Line(CmdPhone, <<n>>) : n \in NameTokens}

AllLines == {Line(CmdAll, <<>>)}

AddBirthdayLines ==
  {Line(CmdAddBirthday, <<>>), Line(CmdAddBirthday, <<Jo>>)}
    \cup {Line(CmdAddBirthday, <<Jo, d>>) : d \in DateTokens}
    \cup {Line(CmdAddBirthday, <<JoLower, D1>>)}
    \cup {Line(CmdAddBirthday, <<Al, DBad>>)}

ShowBirthdayLines ==
  {Line(CmdShowBirthday, <<>>)} \cup {Line(CmdShowBirthday, <<n>>) : n \in NameTokens}

BirthdaysLines == {Line(CmdBirthdays, <<>>)}

HelloLines == {Line(CmdHello, <<>>)}

ExitLines == {Line(CmdExit, <<>>), Line(CmdClose, <<>>)}

\* lines no branch of main recognises: an unknown word, the empty line, a blank line
OtherLines == {Line(WordFoo, <<>>), <<>>, <<" ", " ">>}

UserInputs ==
  AddLines \cup ChangeLines \cup PhoneLines \cup AllLines \cup AddBirthdayLines
    \cup ShowBirthdayLines \cup BirthdaysLines \cup HelloLines \cup ExitLines \cup OtherLines

\* the values date.today() takes in the model
Todays == {<<2024, 6, 10>>, <<2024, 6, 1>>, <<2024, 1, 1>>, <<2023, 1, 1>>}

\* the lines of a short session, for the model of successive runs of the program
SessionInputs ==
  {Line(CmdAdd, <<Jo, P1>>), Line(CmdAdd, <<JoLower, P2>>), Line(CmdAdd, <<Al, PShort>>),
   Line(CmdAddBirthday, <<Jo, D1>>), Line(CmdChange, <<Jo, P1, P2>>),
   Line(CmdPhone, <<Jo>>), Line(CmdAll, <<>>), Line(CmdAddBirthday, <<Al, DBad>>),
   Line(CmdShowBirthday, <<Jo>>), Line(CmdBirthdays, <<>>), Line(CmdHello, <<>>),
   Line(CmdExit, <<>>), Line(CmdClose, <<>>), Line(WordFoo, <<>>), <<>>}

(***************************************************************************)
(* The lines and dates of the model of the birthday functions.             *)
(***************************************************************************)
DJan1 == <<"0", "1", ".", "0", "1", ".", "2", "0", "2", "0">>

DJan8 == <<"0", "8", ".", "0", "1", ".", "1", "9", "9", "0">>

DJan9 == <<"0", "9", ".", "0", "1", ".", "1", "9", "9", "0">>

DJan10 == <<"1", "0", ".", "0", "1", ".", "2", "0", "2", "0">>

DFeb29 == <<"2", "9", ".", "0", "2", ".", "2", "0", "0", "0">>

DMar1Short == <<"1", ".", "3", ".", "1", "9", "9", "0">>

\* the lines of a session that sets and lists birthdays
CalendarInputs ==
  {Line(CmdAdd, <<Jo, P1>>), Line(CmdAdd, <<Al, P2>>)}
    \cup {Line(CmdAddBirthday, <<Jo, d>>) :
            d \in {DJan1, DJan8, DJan9, DJan10, DFeb29, DMar1Short, DBad}}
    \cup {Line(CmdAddBirthday, <<Al, d>>) : d \in {DFeb29, DJan8}}
    \cup {Line(CmdShowBirthday, <<n>>) : n \in {Jo, Al}}
    \cup {Line(CmdBirthdays, <<>>)}

\* the values date.today() takes when a client calls the birthday methods
CalendarTodays == Todays \cup {<<2023, 3, 2>>}

\* the windows a client passes to get_upcoming_birthdays
WindowDays == {7, 8}

\* parse_input on the lines of the model
Parsed == [u \in UserInputs \cup SessionInputs \cup CalendarInputs |-> parse_input(u)]

(***************************************************************************)
(* main: the state of one run of the program.                              *)
(***************************************************************************)
VARIABLES
  book,        \* book.data of main's AddressBook
  state,       \* "running" while the loop of main runs, "terminated" once the process has ended
  output,      \* the strings the last step printed on standard output
  file,        \* addressbook.pkl: None when missing, <<pickled book>> otherwise
  user_input,  \* <<the line the last step read>>, None before the first line
  uncaught,    \* <<exception class, message>> of the exception that ended the process, or None
  api_call     \* <<method, argument>> of the last direct call of an AddressBook method, or None

vars == <<book, state, output, file, user_input, uncaught, api_call>>

Welcome == <<"Welcome to the assistant bot!">>

\* the number of phones stored in the book
RECURSIVE TotalPhones(_)
TotalPhones(data) ==
  IF data = <<>> THEN 0 ELSE Len(data[1].record.phones) + TotalPhones(Tail(data))

\* the process starts with no file present: main lines 200-201
Init ==
  /\ file = None
  /\ book = load_data(file)
  /\ state = "running"
  /\ output = <<Welcome>>
  /\ user_input = None
  /\ uncaught = None
  /\ api_call = None

\* print(handler(args, book)): the string is printed, or the exception the
\* decorator does not catch leaves main and ends the process
Emit(call) ==
  /\ book' = call.data
  /\ IF call.result.kind = "return"
     THEN /\ output' = <<call.result.value>>
          /\ state' = "running"
          /\ uncaught' = None
     ELSE /\ output' = <<>>
          /\ state' = "terminated"
          /\ uncaught' = <<call.result.kind, call.result.value>>
  /\ UNCHANGED file

\* main reads a line whose command is the given word
Reads(U, u, word) ==
  /\ state = "running"
  /\ u \in U
  /\ Parsed[u].command = word
  /\ user_input' = <<u>>
  /\ api_call' = None

\* main lines 205-208
Exit(U) ==
  \E u \in U :
    /\ state = "running"
    /\ Parsed[u].command \in {CmdExit, CmdClose}
    /\ user_input' = <<u>>
    /\ api_call' = None
    /\ file' = save_data(book)
    /\ output' = <<<<"Good bye!">>>>
    /\ state' = "terminated"
    /\ UNCHANGED <<book, uncaught>>

\* main lines 209-210
Hello(U) ==
  \E u \in U :
    /\ Reads(U, u, CmdHello)
    /\ output' = <<<<"How can I help you?">>>>
    /\ UNCHANGED <<book, state, file, uncaught>>

\* main lines 211-212
Add(U) ==
  \E u \in U :
    /\ Reads(U, u, CmdAdd)
    /\ LET call == add_contact(Parsed[u].args, book)
       IN  /\ TotalPhones(call.data) <= MaxPhones
           /\ Emit(call)

\* main lines 213-214
Change(U) ==
  \E u \in U :
    /\ Reads(U, u, CmdChange)
    /\ Emit(change_contact(Parsed[u].args, book))

\* main lines 215-216
ShowPhone(U) ==
  \E u \in U :
    /\ Reads(U, u, CmdPhone)
    /\ Emit(phone(Parsed[u].args, book))

\* main lines 217-218
ShowAll(U) ==
  \E u \in U :
    /\ Reads(U, u, CmdAll)
    /\ Emit(show_all(Parsed[u].args, book))

\* main lines 219-220
AddBirthday(U) ==
  \E u \in U :
    /\ Reads(U, u, CmdAddBirthday)
    /\ Emit(add_birthday(Parsed[u].args, book))

\* main lines 221-222
ShowBirthday(U) ==
  \E u \in U :
    /\ Reads(U, u, CmdShowBirthday)
    /\ Emit(show_birthday(Parsed[u].args, book))

\* main lines 223-224
Birthdays(U) ==
  \E u \in U, today \in Todays :
    /\ Reads(U, u, CmdBirthdays)
    /\ Emit(birthdays(Parsed[u].args, book, today))

KnownCommands ==
  {CmdExit, CmdClose, CmdHello, CmdAdd, CmdChange, CmdPhone, CmdAll, CmdAddBirthday,
   CmdShowBirthday, CmdBirthdays}

InvalidCommand == <<"Invalid command.">>

\* the else branch printing nothing for a line without tokens
Invalid_silent_on_empty(U) ==
  \E u \in U :
    /\ state = "running"
    /\ Parsed[u].command \notin KnownCommands
    /\ user_input' = <<u>>
    /\ api_call' = None
    /\ output' = IF Parsed[u].command = <<>> THEN <<>> ELSE <<InvalidCommand>>
    /\ UNCHANGED <<book, state, file, uncaught>>

\* main lines 225-226
Invalid(U) ==
  \E u \in U :
    /\ state = "running"
    /\ Parsed[u].command \notin KnownCommands
    /\ user_input' = <<u>>
    /\ api_call' = None
    /\ output' = <<InvalidCommand>>
    /\ UNCHANGED <<book, state, file, uncaught>>

Next ==
  \/ Exit(UserInputs)
  \/ Hello(UserInputs)
  \/ Add(UserInputs)
  \/ Change(UserInputs)
  \/ ShowPhone(UserInputs)
  \/ ShowAll(UserInputs)
  \/ AddBirthday(UserInputs)
  \/ ShowBirthday(UserInputs)
  \/ Birthdays(UserInputs)
  \/ Invalid(UserInputs)

Spec == Init /\ [][Next]_vars

(***************************************************************************)
(* Successive runs of the program: once a run has ended, the program is    *)
(* started again and main loads the file the earlier runs left.            *)
(***************************************************************************)
\* main lines 200-201 of a new process
Restart ==
  /\ state = "terminated"
  /\ book' = load_data(file)
  /\ state' = "running"
  /\ output' = <<Welcome>>
  /\ user_input' = None
  /\ uncaught' = None
  /\ api_call' = None
  /\ UNCHANGED file

NextSessions ==
  \/ Exit(SessionInputs)
  \/ Hello(SessionInputs)
  \/ Add(SessionInputs)
  \/ Change(SessionInputs)
  \/ ShowPhone(SessionInputs)
  \/ ShowAll(SessionInputs)
  \/ AddBirthday(SessionInputs)
  \/ ShowBirthday(SessionInputs)
  \/ Birthdays(SessionInputs)
  \/ Invalid(SessionInputs)
  \/ Restart

SpecSessions == Init /\ [][NextSessions]_vars

(***************************************************************************)
(* The AddressBook used as a library: besides the commands, a client       *)
(* calls add_record and delete on the book.                                *)
(***************************************************************************)
\* the records a client builds with Record(name) and add_phone
ClientRecords ==
  {Record(n) : n \in NameTokens} \cup {add_phone(Record(n), P1).record : n \in {Jo, JoLower}}

\* book.add_record(record)
AddRecordCall ==
  \E record \in ClientRecords :
    /\ state = "running"
    /\ TotalPhones(add_record(book, record)) <= MaxPhones
    /\ book' = add_record(book, record)
    /\ api_call' = <<"add_record", record>>
    /\ UNCHANGED <<state, output, file, user_input, uncaught>>

\* book.delete(name); output holds the string the call returns
DeleteCall ==
  \E name \in NameTokens :
    /\ state = "running"
    /\ book' = delete(book, name).data
    /\ output' = <<delete(book, name).result.value>>
    /\ api_call' = <<"delete", name>>
    /\ UNCHANGED <<state, file, user_input, uncaught>>

NextLibrary ==
  \/ Exit(SessionInputs)
  \/ Hello(SessionInputs)
  \/ Add(SessionInputs)
  \/ Change(SessionInputs)
  \/ ShowPhone(SessionInputs)
  \/ ShowAll(SessionInputs)
  \/ AddBirthday(SessionInputs)
  \/ ShowBirthday(SessionInputs)
  \/ Birthdays(SessionInputs)
  \/ Invalid(SessionInputs)
  \/ AddRecordCall
  \/ DeleteCall

SpecLibrary == Init /\ [][NextLibrary]_vars

(***************************************************************************)
(* The birthday functions: besides the commands that set and list          *)
(* birthdays, a client calls days_to_birthday on a record of the book and  *)
(* get_upcoming_birthdays on the book.  output holds the outcome of the    *)
(* call: the value returned or the exception raised.                       *)
(***************************************************************************)
\* book.data[key].days_to_birthday()
DaysToBirthdayCall ==
  \E i \in 1..Len(book), today \in CalendarTodays :
    /\ state = "running"
    /\ output' = <<days_to_birthday(book[i].record, today)>>
    /\ api_call' = <<"days_to_birthday", <<i, today>>>>
    /\ UNCHANGED <<book, state, file, user_input, uncaught>>

\* book.get_upcoming_birthdays(days)
UpcomingBirthdaysCall ==
  \E days \in WindowDays, today \in CalendarTodays :
    /\ state = "running"
    /\ output' = <<get_upcoming_birthdays(book, days, today)>>
    /\ api_call' = <<"get_upcoming_birthdays", <<days, today>>>>
    /\ UNCHANGED <<book, state, file, user_input, uncaught>>

NextCalendar ==
  \/ Add(CalendarInputs)
  \/ AddBirthday(CalendarInputs)
  \/ ShowBirthday(CalendarInputs)
  \/ Birthdays(CalendarInputs)
  \/ DaysToBirthdayCall
  \/ UpcomingBirthdaysCall

SpecCalendar == Init /\ [][NextCalendar]_vars

(***************************************************************************)
(* Properties.                                                             *)
(***************************************************************************)
TypeOK == state \in {"running", "terminated"}

\* the command and the arguments of the line the last step read
LastCommand == Parsed[user_input[1]].command

LastArgs == Parsed[user_input[1]].args

\* the command and the arguments of the line the step being taken reads
ReadCommand == Parsed[user_input'[1]].command

ReadArgs == Parsed[user_input'[1]].args

\* the step being taken is main reading a line
ReadsLine == state = "running" /\ api_call' = None /\ user_input' # None

\* the positions of the records whose name is the given name up to letter case
RecordsFor(data, name) == {i \in 1..Len(data) : Lower(data[i].record.name) = Lower(name)}

\* the phone list of the record for a name (the name has a record)
PhonesOf(data, name) == data[CHOOSE i \in RecordsFor(data, name) : TRUE].record.phones

\* a string of exactly 10 decimal digits
TenDecimalDigits(s) == Len(s) = 10 /\ \A i \in 1..Len(s) : s[i] \in DecimalDigits

\* C1: every invocation of a command handler ends by returning a display
\* string: no failure escapes the dispatch boundary, and the dispatcher stays
\* running until an exit or close line is read.
C1_NoFailureEscapes ==
  /\ uncaught = None
  /\ state = "terminated" => (user_input # None /\ LastCommand \in {CmdExit, CmdClose})

\* the phone list with the first occurrence of old_phone replaced by new_phone
ReplacePhone(phones, old_phone, new_phone) ==
  LET k == CHOOSE i \in 1..Len(phones) : phones[i] = old_phone /\ \A j \in 1..(i - 1) : phones[j] # old_phone
  IN  [phones EXCEPT ![k] = new_phone]

\* C2: `change name oldPhone newPhone` on an existing record whose phone list
\* contains oldPhone, with a valid newPhone, replaces that phone in place and
\* leaves every other phone and every other record unchanged.
C2_ChangeReplacesPhone ==
  [][(/\ ReadsLine
      /\ ReadCommand = CmdChange
      /\ Len(ReadArgs) >= 3
      /\ RecordsFor(book, ReadArgs[1]) # {}
      /\ \E i \in 1..Len(PhonesOf(book, ReadArgs[1])) : PhonesOf(book, ReadArgs[1])[i] = ReadArgs[2]
      /\ TenDecimalDigits(ReadArgs[3]))
     => (/\ Len(book') = Len(book)
         /\ \A i \in 1..Len(book) :
              IF i \in RecordsFor(book, ReadArgs[1])
              THEN book'[i] = [book[i] EXCEPT !.record.phones =
                                 ReplacePhone(@, ReadArgs[2], ReadArgs[3])]
              ELSE book'[i] = book[i])]_vars

\* C3: in every reachable state every phone stored in every record's phone
\* list is a string of exactly 10 decimal digits.
C3_StoredPhonesAreTenDecimalDigits ==
  \A i \in 1..Len(book) : \A k \in 1..Len(book[i].record.phones) :
    TenDecimalDigits(book[i].record.phones[k])

\* the number of positional tokens a handler takes from its arguments
RequiredArgs(command) ==
  CASE command = CmdAdd -> 2
    [] command = CmdChange -> 3
    [] command = CmdPhone -> 1
    [] command = CmdAddBirthday -> 2
    [] command = CmdShowBirthday -> 1
    [] OTHER -> 0

\* C4: a handler invoked with fewer positional tokens than it requires
\* answers with the one fixed message "Enter the argument for the command".
C4_MissingArgumentMessage ==
  (/\ user_input # None
   /\ api_call = None
   /\ Len(LastArgs) < RequiredArgs(LastCommand))
  => output = <<MissingArgument>>

\* C5: change, phone, add-birthday and show-birthday invoked with enough
\* arguments and a name that has no record (ignoring letter case) return
\* "Contact not found.", create no record and leave the book unchanged.
C5_ContactNotFound ==
  [][(/\ ReadsLine
      /\ ReadCommand \in {CmdChange, CmdPhone, CmdAddBirthday, CmdShowBirthday}
      /\ Len(ReadArgs) >= RequiredArgs(ReadCommand)
      /\ RecordsFor(book, ReadArgs[1]) = {})
     => (/\ output' = <<ContactNotFound>>
         /\ book' = book
         /\ state' = "running")]_vars

\* a change line with three arguments named a contact the non-empty book does not hold
C5_Witness ==
  /\ user_input # None
  /\ api_call = None
  /\ LastCommand = CmdChange
  /\ Len(LastArgs) >= 3
  /\ book # <<>>
  /\ RecordsFor(book, LastArgs[1]) = {}
  /\ output = <<ContactNotFound>>

\* C6 as stated: an empty input line produces no output at all and the
\* dispatcher stays running.
C6_EmptyLineNoOutput ==
  (user_input # None /\ api_call = None /\ Split(user_input[1]) = <<>>)
  => (output = <<>> /\ state = "running")

\* C6 amended: an empty input line produces the "Invalid command." message,
\* leaves the address book and the file unchanged, and the dispatcher stays
\* running.
C6_EmptyLineInvalidCommand ==
  [][(ReadsLine /\ Split(user_input'[1]) = <<>>)
     => (/\ output' = <<InvalidCommand>>
         /\ book' = book
         /\ file' = file
         /\ state' = "running")]_vars

\* the empty line was read while the book held a record
C6_Witness ==
  /\ user_input = <<<<>>>>
  /\ api_call = None
  /\ book # <<>>
  /\ output = <<InvalidCommand>>
  /\ state = "running"

\* C7: the dispatcher leaves the running state exactly when a line whose
\* command is exit or close is read; that step writes the whole book to the
\* file and is the only step that writes the file; once terminated, neither
\* the book nor the file changes.
C7_TerminatesExactlyOnExit ==
  [][/\ (state = "running" /\ state' = "terminated")
          <=> (ReadsLine /\ ReadCommand \in {CmdExit, CmdClose})
     /\ (ReadsLine /\ ReadCommand \in {CmdExit, CmdClose})
          => (file' = <<dumps(book)>> /\ book' = book)
     /\ file' # file => (ReadsLine /\ ReadCommand \in {CmdExit, CmdClose})
     /\ state = "terminated" => (book' = book /\ file' = file)]_vars

\* C8: the file written at exit, read by the next run, yields the book the
\* run ended with: the same keys in the same order and for each record the
\* same name, phones and birthday; a missing file yields an empty book.
C8_PersistenceRoundTrip ==
  [][/\ load_data(save_data(book)) = book
     /\ (state = "terminated" /\ state' = "running" /\ uncaught = None) => book' = book
     /\ (state = "terminated" /\ state' = "running" /\ file = None) => book' = EmptyBook]_vars

\* a run has started from a file holding two records, one with two phones and a birthday
C8_Witness ==
  /\ state = "running"
  /\ user_input = None
  /\ file # None
  /\ Len(book) = 2
  /\ \E i \in 1..Len(book) : Len(book[i].record.phones) = 2 /\ book[i].record.birthday # None

\* every key is the lowercased name of its record and no two items share a key
KeysAreLowercasedNames(data) ==
  /\ \A i \in 1..Len(data) : data[i].key = Lower(data[i].record.name)
  /\ \A i, j \in 1..Len(data) : data[i].key = data[j].key => i = j

\* C9: the book holds at most one record per lowercased name under the key
\* that is the lowercased name; add_record(r) then find(n) yields r for every
\* n equal to r's name up to letter case; `add` with a name that differs only
\* in case from an existing record adds the phone to that record.
C9_OneRecordPerLowercasedName ==
  [][/\ KeysAreLowercasedNames(book')
     /\ (api_call' # None /\ api_call'[1] = "add_record")
          => \A n \in NameTokens :
               Lower(n) = Lower(api_call'[2].name) => find(book', n) = <<api_call'[2]>>
     /\ (/\ ReadsLine
         /\ ReadCommand = CmdAdd
         /\ Len(ReadArgs) >= 2
         /\ RecordsFor(book, ReadArgs[1]) # {})
          => (/\ Len(book') = Len(book)
              /\ \A i \in 1..Len(book) :
                   /\ book'[i].key = book[i].key
                   /\ book'[i].record.name = book[i].record.name
                   /\ book'[i].record.birthday = book[i].record.birthday
                   /\ book'[i].record.phones =
                        IF i \in RecordsFor(book, ReadArgs[1]) /\ Phone(ReadArgs[2]).kind = "return"
                        THEN Append(book[i].record.phones, ReadArgs[2])
                        ELSE book[i].record.phones)]_vars

\* `add jo ...` has added its phone to the record created as "Jo", next to a second record
C9_Witness ==
  /\ user_input = <<Line(CmdAdd, <<JoLower, P2>>)>>
  /\ api_call = None
  /\ Len(book) = 2
  /\ \E i \in 1..Len(book) : book[i].record.name = Jo /\ book[i].record.phones = <<P1, P2>>

\* C10: `add name phone` with a valid phone appends the phone to the record's
\* list, a phone already present included; `phone name` returns the phones in
\* insertion order joined by "; ", and the no-phones reply exactly when the
\* list is empty.
C10_AddAppendsPhoneListsInOrder ==
  [][/\ (/\ ReadsLine
         /\ ReadCommand = CmdAdd
         /\ Len(ReadArgs) >= 2
         /\ TenDecimalDigits(ReadArgs[2]))
          => (/\ RecordsFor(book', ReadArgs[1]) # {}
              /\ PhonesOf(book', ReadArgs[1]) =
                   (IF RecordsFor(book, ReadArgs[1]) = {} THEN <<>>
                    ELSE PhonesOf(book, ReadArgs[1])) \o <<ReadArgs[2]>>)
     /\ (/\ ReadsLine
         /\ ReadCommand = CmdPhone
         /\ Len(ReadArgs) >= 1
         /\ RecordsFor(book, ReadArgs[1]) # {})
          => (/\ PhonesOf(book, ReadArgs[1]) # <<>>
                   => output' = <<Join(<<"; ">>, PhonesOf(book, ReadArgs[1]))>>
              /\ output' = <<NoPhonesReply>> <=> PhonesOf(book, ReadArgs[1]) = <<>>)]_vars

\* `phone Jo` has listed the same phone twice
C10_Witness ==
  /\ user_input = <<Line(CmdPhone, <<Jo>>)>>
  /\ api_call = None
  /\ RecordsFor(book, Jo) # {}
  /\ PhonesOf(book, Jo) = <<P1, P1>>
  /\ output = <<P1 \o <<"; ">> \o P1>>

\* the days from today to the next day, today included, that has the month
\* and the day of the birthday
DaysToNextOccurrence(birthday, today) ==
  LET years == {y \in today[1]..(today[1] + 8) :
                  /\ IsDate(y, birthday[2], birthday[3])
                  /\ Ordinal(<<y, birthday[2], birthday[3]>>) >= Ordinal(today)}
      first == CHOOSE y \in years : \A z \in years : y <= z
  IN  Ordinal(<<first, birthday[2], birthday[3]>>) - Ordinal(today)

\* the pairs (name, days left) of the records, in the order of the book from
\* position i on, whose next birthday is at most `days` days away
RECURSIVE PairsWithin(_, _, _, _)
PairsWithin(data, i, days, today) ==
  IF i > Len(data) THEN <<>>
  ELSE LET record == data[i].record
           rest == PairsWithin(data, i + 1, days, today)
       IN  IF record.birthday # None /\ DaysToNextOccurrence(record.birthday, today) <= days
           THEN <<<<record.name, DaysToNextOccurrence(record.birthday, today)>>>> \o rest
           ELSE rest

\* what `birthdays` is to print for a book on a day
BirthdaysListing(data, today) ==
  LET pairs == PairsWithin(data, 1, 7, today)
  IN  IF pairs = <<>> THEN NoUpcoming
      ELSE Join(<<"\n">>, [k \in 1..Len(pairs) |-> BirthdayLine(pairs[k])])

\* C11: for every book and every today, `birthdays` prints the empty-result
\* message exactly when no contact has a next birthday within 7 days, and
\* otherwise one line for each contact whose next birthday is 0 to 7 days
\* away and for no other; a contact's line does not depend on the birthdays
\* of the other contacts.
C11_BirthdaysListsUpcoming ==
  [][(ReadsLine /\ ReadCommand = CmdBirthdays)
     => \E today \in Todays : output' = <<BirthdaysListing(book, today)>>]_vars

\* C12: get_upcoming_birthdays(days) returns, in the order of the book, exactly
\* the pairs (name, d) of the records with a birthday whose next birthday is
\* d <= days days away, d being the record's days_to_birthday().
C12_UpcomingWithinWindow ==
  (api_call # None /\ api_call[1] = "get_upcoming_birthdays")
  => (/\ output[1].kind = "return"
      /\ output[1].value = PairsWithin(book, 1, api_call[2][1], api_call[2][2])
      /\ \A k \in 1..Len(output[1].value) :
           \E i \in 1..Len(book) :
             /\ book[i].record.name = output[1].value[k][1]
             /\ days_to_birthday(book[i].record, api_call[2][2]) = Return(output[1].value[k][2]))

\* C13: days_to_birthday() returns None for a record without birthday, and
\* otherwise the days from today to the next occurrence of the birthday's
\* month and day, today's own date counting as 0; the result lies in 0..365.
C13_DaysToBirthday ==
  (api_call # None /\ api_call[1] = "days_to_birthday")
  => LET record == book[api_call[2][1]].record
         today == api_call[2][2]
     IN  IF record.birthday = None THEN output = <<Return(None)>>
         ELSE /\ output[1].kind = "return"
              /\ output[1].value = DaysToNextOccurrence(record.birthday, today)
              /\ output[1].value \in 0..365
              /\ (record.birthday[2] = today[2] /\ record.birthday[3] = today[3])
                   => output[1].value = 0
              /\ (record.birthday = <<2020, 1, 10>> /\ today = <<2024, 1, 1>>)
                   => output[1].value = 9

C15_DeleteRemovesRecord ==
  [][(api_call' # None /\ api_call'[1] = "delete")
     => LET name == api_call'[2]
        IN  IF RecordsFor(book, name) = {}
            THEN /\ book' = book
                 /\ output' = <<<<"Record not found.">>>>
            ELSE /\ output' = <<<<"Record ">> \o name \o <<" deleted.">>>>
                 /\ Len(book') = Len(book) - 1
                 /\ \A n \in NameTokens : Lower(n) = Lower(name) => find(book', n) = None
                 /\ \A i \in 1..Len(book) :
                      i \notin RecordsFor(book, name)
                        => \E j \in 1..Len(book') : book'[j] = book[i]]_vars

\* delete("jo") has removed a record and left another one in the book
C15_Witness ==
  /\ api_call = <<"delete", JoLower>>
  /\ output = <<<<"Record ">> \o JoLower \o <<" deleted.">>>>
  /\ Len(book) = 1
  /\ find(book, Jo) = None
  /\ find(book, Al) # None

\* a string DD.MM.YYYY of digits that names a day of the calendar
IsStrictDate(s) ==
  /\ Len(s) = 10
  /\ s[3] = "." /\ s[6] = "."
  /\ \A i \in {1, 2, 4, 5, 7, 8, 9, 10} : s[i] \in DecimalDigits
  /\ IsDate(StrToInt(SubSeq(s, 7, 10)), StrToInt(SubSeq(s, 4, 5)), StrToInt(SubSeq(s, 1, 2)))

\* C16: Birthday construction succeeds only for strings of the form DD.MM.YYYY
\* that denote a real calendar date and fails for every other string; for
\* every string it accepts, formatting the stored date reproduces the string.
C16_BirthdayAcceptsOnlyDDMMYYYY ==
  (/\ user_input # None
   /\ api_call = None
   /\ LastCommand = CmdAddBirthday
   /\ Len(LastArgs) >= 2
   /\ RecordsFor(book, LastArgs[1]) # {})
  => IF IsStrictDate(LastArgs[2])
     THEN LET record == book[CHOOSE i \in RecordsFor(book, LastArgs[1]) : TRUE].record
          IN  /\ record.birthday # None
              /\ FormatDate(record.birthday) = LastArgs[2]
     ELSE output = <<DateFormatError>>

\* C17: every record's name is a non-empty string fixed at creation: no
\* command changes the name of an existing record, an `add` that addresses
\* the record with another letter case included.
C17_NamesAreFixed ==
  [][ReadsLine
     => (/\ \A i \in 1..Len(book') : Len(book'[i].record.name) > 0
         /\ \A i \in 1..Len(book) :
              /\ i <= Len(book')
              /\ book'[i].record.name = book[i].record.name)]_vars

\* `ADD jo ...` has added a phone to the record created as "Jo", which keeps its spelling
C17_Witness ==
  /\ user_input = <<Line(WordAddUpper, <<JoLower, P2>>)>>
  /\ api_call = None
  /\ Len(book) = 1
  /\ book[1].record.name = Jo
  /\ book[1].record.phones = <<P1, P2>>

\* the error messages of the handlers: validation failure, missing argument, contact not found
IsErrorOutput(out) ==
  /\ Len(out) = 1
  /\ \/ out[1] \in {PhoneError, DateFormatError, MissingArgument, ContactNotFound}
     \/ out[1][1] = "not enough values to unpack (expected at least "

\* C18: whenever a command handler returns an error message, the address
\* book is as it was before the command; `add name phone` with an invalid
\* phone and a name without record leaves the book without a record for it.
C18_ErrorsLeaveBookUnchanged ==
  [][(ReadsLine /\ IsErrorOutput(output')) => book' = book]_vars

\* str.strip().split() on the lines of the model
Tokens == [u \in UserInputs \cup SessionInputs \cup CalendarInputs |-> Split(u)]

\* the tokens of the line the step being taken reads
ReadTokens == Tokens[user_input'[1]]

\* C19: hello, phone, all, show-birthday, birthdays and every unrecognized
\* command leave the address book unchanged; an unrecognized command prints
\* "Invalid command." and keeps the dispatcher running; the first token
\* selects the handler whatever its letter case.
C19_QueriesLeaveBookUnchanged ==
  [][(ReadsLine /\ ReadTokens # <<>>)
     => LET word == Lower(ReadTokens[1])
        IN  /\ word \in {CmdHello, CmdPhone, CmdAll, CmdShowBirthday, CmdBirthdays}
                 => book' = book
            /\ word \notin KnownCommands
                 => (book' = book /\ output' = <<InvalidCommand>> /\ state' = "running")
            /\ word = CmdAdd
                 => LET added == add_contact(Tail(ReadTokens), book)
                    IN  book' = added.data /\ output' = <<added.result.value>>
            /\ word = CmdPhone
                 => output' = <<phone(Tail(ReadTokens), book).result.value>>]_vars

\* `show-birthday jo` has printed the birthday of a book of two records
C19_Witness ==
  /\ user_input = <<Line(CmdShowBirthday, <<JoLower>>)>>
  /\ api_call = None
  /\ Len(book) = 2
  /\ output = <<Jo \o <<"'s birthday: ">> \o D1>>

====
